---- MODULE Spec2Model ----
(***************************************************************************)
(* The table-extraction pipeline of src/main.rs (covid-situation-reports): *)
(* window selection, line coalescing, record batching, filtering and the   *)
(* two collections (china_regions, countries) followed by the println.     *)
(*                                                                         *)
(* A line of text is a sequence of characters; a character is a one-letter *)
(* string, or a "U+xxxx" token for a non-ASCII code point.                 *)
(***************************************************************************)
EXTENDS Integers, Sequences, FiniteSets, TLC

(***************************************************************************)
(* Characters                                                              *)
(***************************************************************************)

\* ASCII decimal digits: what str::parse::<u32> accepts.
AsciiDigits == {"0", "1", "2", "3", "4", "5", "6", "7", "8", "9"}

\* A decimal digit outside ASCII (ARABIC-INDIC DIGIT THREE): the regex class
\* \d is Unicode-aware and matches it, u32 parsing rejects it.
ArabicThree == "U+0663"

\* The regex class \d.
IsDigit(c) == c \in AsciiDigits \cup {ArabicThree}

\* The regex class \s and the characters str::trim removes.
IsSpace(c) == c \in {" ", "\t"}

DigitValue(c) ==
  CASE c = "0" -> 0 [] c = "1" -> 1 [] c = "2" -> 2 [] c = "3" -> 3
    [] c = "4" -> 4 [] c = "5" -> 5 [] c = "6" -> 6 [] c = "7" -> 7
    [] c = "8" -> 8 [] c = "9" -> 9

\* The decimal digits of u32::MAX, 4294967295.
U32MaxDigits == <<"4", "2", "9", "4", "9", "6", "7", "2", "9", "5">>

(***************************************************************************)
(* String literals of the source                                           *)
(***************************************************************************)

StartSentinel == <<"H", "u", "b", "e", "i">>
EndSentinel ==
  <<"C", "a", "s", "e", " ", "c", "l", "a", "s", "s", "i", "f", "i", "c",
    "a", "t", "i", "o", "n", "s", " ", "a", "r", "e">>
HeaderLabel ==
  <<"C", "o", "u", "n", "t", "r", "y", "/", "T", "e", "r", "r", "i", "t",
    "o", "r", "y", "/", "A", "r", "e", "a">>
Subtotal ==
  <<"S", "u", "b", "t", "o", "t", "a", "l", " ", "f", "o", "r", " ", "a",
    "l", "l", " ", "r", "e", "g", "i", "o", "n", "s">>
GrandTotal == <<"G", "r", "a", "n", "d", " ", "t", "o", "t", "a", "l">>
China == <<"C", "h", "i", "n", "a">>
Total == <<"T", "o", "t", "a", "l">>
RegionWord == <<"R", "e", "g", "i", "o", "n">>
SpacedHyphen == <<" ", "-", " ">>
Unimplemented ==
  <<"U", "n", "i", "m", "p", "l", "e", "m", "e", "n", "t", "e", "d", "?">>
\* The two characters of the footnote marker literal.
FootnoteMarker == <<"U+0E22", "U+0E07">>

(***************************************************************************)
(* str operations                                                          *)
(***************************************************************************)

Last(s) == s[Len(s)]

\* str::starts_with
StartsWith(s, p) == Len(p) <= Len(s) /\ SubSeq(s, 1, Len(p)) = p

\* str::ends_with
EndsWith(s, p) ==
  Len(p) <= Len(s) /\ SubSeq(s, Len(s) - Len(p) + 1, Len(s)) = p

\* str::contains
Contains(s, p) ==
  \E i \in 1..(Len(s) - Len(p) + 1) : SubSeq(s, i, i + Len(p) - 1) = p

RECURSIVE TrimStart(_)
TrimStart(s) ==
  IF s # <<>> /\ IsSpace(Head(s)) THEN TrimStart(Tail(s)) ELSE s

RECURSIVE TrimEnd(_)
TrimEnd(s) ==
  IF s # <<>> /\ IsSpace(Last(s)) THEN TrimEnd(SubSeq(s, 1, Len(s) - 1)) ELSE s

\* str::trim
Trim(s) == TrimEnd(TrimStart(s))

\* str::replace: every non-overlapping match, left to right.
RECURSIVE Replace(_, _, _)
Replace(s, from, to) ==
  IF s = <<>> THEN <<>>
  ELSE IF StartsWith(s, from)
       THEN to \o Replace(SubSeq(s, Len(from) + 1, Len(s)), from, to)
       ELSE <<Head(s)>> \o Replace(Tail(s), from, to)

\* [String]::join(" ")
RECURSIVE JoinSpace(_)
JoinSpace(frags) ==
  IF frags = <<>> THEN <<>>
  ELSE IF Len(frags) = 1 THEN frags[1]
  ELSE frags[1] \o <<" ">> \o JoinSpace(Tail(frags))

\* str::split(|c| c == '(' || c == ')'): the pieces between the parentheses.
RECURSIVE SplitParens(_, _)
SplitParens(s, piece) ==
  IF s = <<>> THEN <<piece>>
  ELSE IF Head(s) \in {"(", ")"}
       THEN <<piece>> \o SplitParens(Tail(s), <<>>)
       ELSE SplitParens(Tail(s), Append(piece, Head(s)))

\* Iterator::take(n) of a sequence.
Take(s, n) == SubSeq(s, 1, IF Len(s) < n THEN Len(s) ELSE n)

\* Whether a string of ASCII digits is above u32::MAX: compared digit by
\* digit, after the leading zeros.
RECURSIVE StripZeros(_)
StripZeros(s) ==
  IF Len(s) > 1 /\ Head(s) = "0" THEN StripZeros(Tail(s)) ELSE s

RECURSIVE DigitsGreater(_, _)
DigitsGreater(s, t) ==
  /\ s # <<>>
  /\ \/ DigitValue(Head(s)) > DigitValue(Head(t))
     \/ Head(s) = Head(t) /\ DigitsGreater(Tail(s), Tail(t))

OverflowsU32(s) ==
  LET z == StripZeros(s)
  IN \/ Len(z) > Len(U32MaxDigits)
     \/ Len(z) = Len(U32MaxDigits) /\ DigitsGreater(z, U32MaxDigits)

RECURSIVE DecimalValue(_, _)
DecimalValue(s, acc) ==
  IF s = <<>> THEN acc
  ELSE DecimalValue(Tail(s), acc * 10 + DigitValue(Head(s)))

\* str::parse::<u32>: <<v>> for Ok(v), <<>> for Err (empty, a character that
\* is no ASCII digit, or a value above u32::MAX).
ParseDigits(s) ==
  IF s = <<>> \/ \E i \in 1..Len(s) : s[i] \notin AsciiDigits THEN <<>>
  ELSE IF OverflowsU32(s) THEN <<>>
  ELSE <<DecimalValue(s, 0)>>

ParseU32(s) ==
  IF s # <<>> /\ Head(s) = "+" THEN ParseDigits(Tail(s)) ELSE ParseDigits(s)

(***************************************************************************)
(* cases_re: ^\s*\d+(\s+\(\s*\d+\s*\))?\s*$                                *)
(***************************************************************************)

\* The regex as an automaton over the characters from index i on, in state q:
\*   0  \s* before the first number     4  the second number
\*   1  the first number                5  \s* after the second number
\*   2  \s+ after the first number      6  \s* after ")"
\*   3  \s* after "("
\* The match ends in states 1, 2 and 6.
RECURSIVE CasesReFrom(_, _, _)
CasesReFrom(s, i, q) ==
  IF i > Len(s) THEN q \in {1, 2, 6}
  ELSE CASE q = 0 /\ IsSpace(s[i]) -> CasesReFrom(s, i + 1, 0)
         [] q = 0 /\ IsDigit(s[i]) -> CasesReFrom(s, i + 1, 1)
         [] q = 1 /\ IsDigit(s[i]) -> CasesReFrom(s, i + 1, 1)
         [] q = 1 /\ IsSpace(s[i]) -> CasesReFrom(s, i + 1, 2)
         [] q = 2 /\ IsSpace(s[i]) -> CasesReFrom(s, i + 1, 2)
         [] q = 2 /\ s[i] = "(" -> CasesReFrom(s, i + 1, 3)
         [] q = 3 /\ IsSpace(s[i]) -> CasesReFrom(s, i + 1, 3)
         [] q = 3 /\ IsDigit(s[i]) -> CasesReFrom(s, i + 1, 4)
         [] q = 4 /\ IsDigit(s[i]) -> CasesReFrom(s, i + 1, 4)
         [] q = 4 /\ IsSpace(s[i]) -> CasesReFrom(s, i + 1, 5)
         [] q = 4 /\ s[i] = ")" -> CasesReFrom(s, i + 1, 6)
         [] q = 5 /\ IsSpace(s[i]) -> CasesReFrom(s, i + 1, 5)
         [] q = 5 /\ s[i] = ")" -> CasesReFrom(s, i + 1, 6)
         [] q = 6 /\ IsSpace(s[i]) -> CasesReFrom(s, i + 1, 6)
         [] OTHER -> FALSE

\* cases_re.is_match
CasesRe(s) == CasesReFrom(s, 1, 0)

(***************************************************************************)
(* Line Window Selector                                                    *)
(***************************************************************************)

\* text.lines().filter_map(trim, drop "")
RECURSIVE NonBlankLines(_)
NonBlankLines(text) ==
  IF text = <<>> THEN <<>>
  ELSE IF Trim(Head(text)) = <<>> THEN NonBlankLines(Tail(text))
  ELSE <<Trim(Head(text))>> \o NonBlankLines(Tail(text))

\* .skip_while(|line| line != "Hubei")
RECURSIVE SkipToStart(_)
SkipToStart(ls) ==
  IF ls # <<>> /\ Head(ls) # StartSentinel THEN SkipToStart(Tail(ls)) ELSE ls

\* .take_while(|line| line != "Case classifications are")
RECURSIVE TakeToEnd(_)
TakeToEnd(ls) ==
  IF ls # <<>> /\ Head(ls) # EndSentinel
  THEN <<Head(ls)>> \o TakeToEnd(Tail(ls))
  ELSE <<>>

\* A faulty variant of Window: the two adaptors in the other order, so that an
\* end sentinel before the start sentinel empties the window.
WindowTakeFirst(text) == SkipToStart(TakeToEnd(NonBlankLines(text)))

Window(text) == TakeToEnd(SkipToStart(NonBlankLines(text)))

(***************************************************************************)
(* Line Coalescer                                                          *)
(***************************************************************************)

\* A faulty variant of MergeCond: prev may already hold a "(".
MergeCondAnyPrev(prev, cur) == StartsWith(cur, <<"(">>) /\ CasesRe(prev)

\* The closure's condition for merging cur into prev.
MergeCond(prev, cur) ==
  StartsWith(cur, <<"(">>) /\ CasesRe(prev) /\ ~Contains(prev, <<"(">>)

\* Itertools::coalesce: the pending element is offered every next element; a
\* merge replaces the pending element, a refusal emits it.
RECURSIVE CoalesceFrom(_, _)
CoalesceFrom(last, rest) ==
  IF rest = <<>> THEN <<last>>
  ELSE IF MergeCond(last, Head(rest))
       THEN CoalesceFrom(last \o <<" ">> \o Head(rest), Tail(rest))
       ELSE <<last>> \o CoalesceFrom(Head(rest), Tail(rest))

Coalesce(ls) == IF ls = <<>> THEN <<>> ELSE CoalesceFrom(Head(ls), Tail(ls))

(***************************************************************************)
(* Record Batcher                                                          *)
(***************************************************************************)

\* it.take_while_ref(|line| !cases_re.is_match(line)): the lines taken, and
\* the lines left (the first matching line is left in the iterator).
RECURSIVE TakePreamble(_)
TakePreamble(ls) ==
  IF ls # <<>> /\ ~CasesRe(Head(ls))
  THEN <<Head(ls)>> \o TakePreamble(Tail(ls))
  ELSE <<>>

RECURSIVE DropPreamble(_)
DropPreamble(ls) ==
  IF ls # <<>> /\ ~CasesRe(Head(ls)) THEN DropPreamble(Tail(ls)) ELSE ls

\* it.take_while_ref(|line| cases_re.is_match(line)): the lines taken, and the
\* lines left.
RECURSIVE TakeCounts(_)
TakeCounts(ls) ==
  IF ls # <<>> /\ CasesRe(Head(ls))
  THEN <<Head(ls)>> \o TakeCounts(Tail(ls))
  ELSE <<>>

RECURSIVE DropCounts(_)
DropCounts(ls) ==
  IF ls # <<>> /\ CasesRe(Head(ls)) THEN DropCounts(Tail(ls)) ELSE ls

\* The fragments the preamble filter drops.
DropFragment(line) ==
  \/ Contains(line, RegionWord)
  \/ Contains(line, SpacedHyphen)
  \/ Contains(line, Unimplemented)

RECURSIVE KeepFragments(_)
KeepFragments(ls) ==
  IF ls = <<>> THEN <<>>
  ELSE IF DropFragment(Head(ls)) THEN KeepFragments(Tail(ls))
  ELSE <<Head(ls)>> \o KeepFragments(Tail(ls))

\* A faulty variant of ResolveName: the header label is not looked for.
ResolveNameJoined(preamble) == JoinSpace(preamble)

\* The name before cleanup: the popped last fragment under the header label,
\* the fragments joined otherwise.
ResolveName(preamble) ==
  IF \E i \in 1..Len(preamble) : preamble[i] = HeaderLabel
  THEN Last(preamble)
  ELSE JoinSpace(preamble)

\* if preamble.starts_with(")") { skip(1) }
StripLeadingParen(s) == IF StartsWith(s, <<")">>) THEN Tail(s) ELSE s

\* if preamble.ends_with(marker) { take(count - 1) }: one character goes.
StripFootnote(s) ==
  IF EndsWith(s, FootnoteMarker) THEN SubSeq(s, 1, Len(s) - 1) ELSE s

\* The substitution table, in its order.
Substitute(s) ==
  Replace(
    Replace(
      Replace(
        Replace(
          Replace(s, Total, China),
          <<"U", "n", "i", " ", "t", "e", "d">>, <<"U", "n", "i", "t", "e", "d">>),
        <<"F", "i", "n", "l", "a", "n", " ", "d">>,
        <<"F", "i", "n", "l", "a", "n", "d">>),
      <<"J", "i", "a", "n", " ", "g", "s", "u">>,
      <<"J", "i", "a", "n", "g", "s", "u">>),
    <<"S", "o", "u", "t", "h", " ", "-", " ">>, <<>>)

CleanName(resolved) ==
  Substitute(Trim(StripFootnote(StripLeadingParen(resolved))))

\* c.trim().parse::<u32>() of each of the pieces.
ParsePieces(pieces) == [i \in 1..Len(pieces) |-> ParseU32(Trim(pieces[i]))]

\* The tokens of one count cell, each as parse::<u32> leaves it: with a "("
\* the first two pieces between parentheses; else the whole line, untrimmed.
CountTokens(count) ==
  IF Contains(count, <<"(">>)
  THEN ParsePieces(Take(SplitParens(count, <<>>), 2))
  ELSE <<ParseU32(count)>>

\* The cells' tokens.
CellTokens(cells) == [i \in 1..Len(cells) |-> CountTokens(cells[i])]

\* Whether an unwrap of a token panics.
UnwrapPanics(tokens) ==
  \E i \in 1..Len(tokens) : \E j \in 1..Len(tokens[i]) : tokens[i][j] = <<>>

\* The CountGroups of tokens that all parsed.
Unwrap(tokens) ==
  [i \in 1..Len(tokens) |-> [j \in 1..Len(tokens[i]) |-> tokens[i][j][1]]]

\* What the closure returns (item: "Some", "None" or "Panic") with the lines
\* it leaves; frags and cells are the lines the name and the counts came from.
BatchResult(name, frags, cells, tokens, rest) ==
  IF UnwrapPanics(tokens)
  THEN [item |-> "Panic", name |-> name, frags |-> frags, cells |-> cells,
        counts |-> <<>>, rest |-> rest]
  ELSE [item |-> IF name = <<>> \/ tokens = <<>> THEN "None" ELSE "Some",
        name |-> name, frags |-> frags, cells |-> cells,
        counts |-> Unwrap(tokens), rest |-> rest]

BatchCounts(frags, cells, rest) ==
  BatchResult(CleanName(ResolveName(frags)), frags, cells, CellTokens(cells), rest)

BatchPreamble(preamble, afterName) ==
  BatchCounts(KeepFragments(preamble), TakeCounts(afterName), DropCounts(afterName))

\* One call of the batching closure on the lines left.
Batching(it) == BatchPreamble(TakePreamble(it), DropPreamble(it))

(***************************************************************************)
(* Record Filter                                                           *)
(***************************************************************************)

\* The filter's predicate.
KeepRecord(preamble, counts) ==
  Len(counts) >= 6 /\ preamble # Subtotal /\ preamble # GrandTotal

\* Filter::next over Batching::next: batches until a record passes the
\* predicate, or the closure returns None, or it panics.
RECURSIVE FilterNext(_)
FilterFind(b) ==
  IF b.item = "Some" /\ ~KeepRecord(b.name, b.counts)
  THEN FilterNext(b.rest)
  ELSE b

FilterNext(it) == FilterFind(Batching(it))

(***************************************************************************)
(* Schema mapping (the json! values)                                       *)
(***************************************************************************)

Null == [null |-> TRUE]
Num(n) == [num |-> n]
Str(s) == [str |-> s]
Arr(a) == [arr |-> a]

\* The region closure's json! object (counts[i][0] of the source is
\* counts[i+1][1] here).
RegionJson(region_name, counts) ==
  [name |-> Str(region_name),
   population |-> Num(counts[1][1]),
   today_confirmed_cases |-> Num(counts[2][1]),
   today_suspected_cases |-> Num(counts[3][1]),
   today_deaths |-> Num(counts[4][1]),
   total_confirmed_cases |-> Num(counts[5][1]),
   total_deaths |-> Num(counts[6][1])]

\* The country closure's json! object of the record named "China".
ChinaJson(counts, regions) ==
  [name |-> Str(China),
   today_confirmed_cases |-> Num(counts[2][1]),
   today_suspected_cases |-> Num(counts[3][1]),
   total_confirmed_cases |-> Num(counts[5][1]),
   today_likely_place_of_exposure_china |-> Null,
   total_likely_place_of_exposure_china |-> Null,
   today_likely_place_of_exposure_in_country |-> Null,
   total_likely_place_of_exposure_in_country |-> Null,
   today_likely_place_of_exposure_other |-> Null,
   total_likely_place_of_exposure_other |-> Null,
   today_likely_place_of_exposure_unknown |-> Null,
   total_likely_place_of_exposure_unknown |-> Null,
   today_deaths |-> Num(counts[4][1]),
   total_deaths |-> Num(counts[6][1]),
   regions |-> Arr(regions)]

\* Whether the other countries' json! object indexes an element a group lacks
\* (counts[i][1] of a one-element group panics).
CountryIndexPanics(counts) == \E i \in 1..6 : Len(counts[i]) < 2

\* A faulty variant of CountryJson: the pairs read as (today, total).
CountryJsonTodayFirst(country_name, counts) ==
  [name |-> Str(country_name),
   today_confirmed_cases |-> Num(counts[1][1]),
   today_suspected_cases |-> Null,
   total_confirmed_cases |-> Num(counts[1][2]),
   today_likely_place_of_exposure_china |-> Num(counts[2][1]),
   total_likely_place_of_exposure_china |-> Num(counts[2][2]),
   today_likely_place_of_exposure_in_country |-> Num(counts[4][1]),
   total_likely_place_of_exposure_in_country |-> Num(counts[4][2]),
   today_likely_place_of_exposure_other |-> Num(counts[3][1]),
   total_likely_place_of_exposure_other |-> Num(counts[3][2]),
   today_likely_place_of_exposure_unknown |-> Num(counts[5][1]),
   total_likely_place_of_exposure_unknown |-> Num(counts[5][2]),
   today_deaths |-> Num(counts[6][1]),
   total_deaths |-> Num(counts[6][2]),
   regions |-> Null]

\* The country closure's json! object of any other record.
CountryJson(country_name, counts) ==
  [name |-> Str(country_name),
   today_confirmed_cases |-> Num(counts[1][2]),
   today_suspected_cases |-> Null,
   total_confirmed_cases |-> Num(counts[1][1]),
   today_likely_place_of_exposure_china |-> Num(counts[2][2]),
   total_likely_place_of_exposure_china |-> Num(counts[2][1]),
   today_likely_place_of_exposure_in_country |-> Num(counts[4][2]),
   total_likely_place_of_exposure_in_country |-> Num(counts[4][1]),
   today_likely_place_of_exposure_other |-> Num(counts[3][2]),
   total_likely_place_of_exposure_other |-> Num(counts[3][1]),
   today_likely_place_of_exposure_unknown |-> Num(counts[5][2]),
   total_likely_place_of_exposure_unknown |-> Num(counts[5][1]),
   today_deaths |-> Num(counts[6][2]),
   total_deaths |-> Num(counts[6][1]),
   regions |-> Null]

(***************************************************************************)
(* Inputs                                                                  *)
(***************************************************************************)

\* The most table rows of an extracted text.
MaxRows == 4
\* The most lines of a text of loose lines.
MaxLines == 4

Japan == <<"J", "a", "p", "a", "n">>
RegionHeader ==
  <<"W", "e", "s", "t", "e", "r", "n", " ", "P", "a", "c", "i", "f", "i",
    "c", " ", "R", "e", "g", "i", "o", "n">>

\* Six single-valued cells (the layout of the table of regions).
SingleCells == << <<"1", "0">>, <<"2">>, <<"3">>, <<"4">>, <<"5">>, <<"6">> >>

\* Six pair-valued cells (the layout of the table of countries); the second
\* cell is wrapped over two lines and padded with blanks.
PairCells ==
  << <<"1", "1", " ", "(", "2", ")">>,
     <<" ", "3">>, <<"(", " ", "4", " ", ")", " ">>,
     <<"5", " ", "(", "6", ")">>,
     <<"7", " ", "(", "8", ")">>,
     <<"9", " ", "(", "0", ")">>,
     <<"2", " ", "(", "1", ")">> >>

\* Rows as the extraction leaves them: a region, the header label before
\* China, the total of the regions, a country under a split name, a repeated
\* table header before a stray number, a cell in non-ASCII digits, the
\* subtotal, and the sentence after the tables.
Rows ==
  { <<StartSentinel>> \o SingleCells,
    <<HeaderLabel, China>> \o SingleCells,
    <<Total>> \o SingleCells,
    << <<"F", "i", "n", "l", "a", "n">>, <<"d">> >> \o PairCells,
    << <<" ">>, RegionHeader, <<"7">> >>,
    <<Japan, <<ArabicThree>> >>,
    <<Subtotal>> \o SingleCells,
    <<EndSentinel>> }

LooseLines ==
  { StartSentinel, EndSentinel, <<"x">>, <<"5">>, <<"(", "3", ")">>,
    <<"5", " ", "(", "3", ")">> }

RECURSIVE Flatten(_)
Flatten(rows) == IF rows = <<>> THEN <<>> ELSE Head(rows) \o Flatten(Tail(rows))

SeqsUpTo(S, n) == UNION {[1..k -> S] : k \in 0..n}

TextInputs ==
  {Flatten(rows) : rows \in SeqsUpTo(Rows, MaxRows)}
    \cup SeqsUpTo(LooseLines, MaxLines)

(***************************************************************************)
(* The run of main from the extracted text on                              *)
(***************************************************************************)

VARIABLES
  text,           \* the lines of document.extract_text
  windowed,       \* what skip_while / take_while let through
  coalesced,      \* what coalesce yields from them
  it,             \* the lines all_regions_iter has not consumed yet
  china_regions,  \* the Vec being collected
  countries,      \* the Vec being collected
  stdout,         \* the documents printed
  pc,             \* "window", "coalesce", "regions", "countries", "print",
                  \* "done", "panicked"
  panic,          \* the panic message of a panicked run
  mapped          \* history: the records the two closures were called with

vars ==
  <<text, windowed, coalesced, it, china_regions, countries, stdout, pc, panic,
    mapped>>

Init ==
  /\ text \in TextInputs
  /\ windowed = <<>>
  /\ coalesced = <<>>
  /\ it = <<>>
  /\ china_regions = <<>>
  /\ countries = <<>>
  /\ stdout = <<>>
  /\ pc = "window"
  /\ panic = ""
  /\ mapped = <<>>

\* lines 46-53
SelectWindow ==
  /\ pc = "window"
  /\ windowed' = Window(text)
  /\ pc' = "coalesce"
  /\ UNCHANGED <<text, coalesced, it, china_regions, countries, stdout, panic,
                 mapped>>

\* lines 54-59
CoalesceLines ==
  /\ pc = "coalesce"
  /\ coalesced' = Coalesce(windowed)
  /\ it' = coalesced'
  /\ pc' = "regions"
  /\ UNCHANGED <<text, windowed, china_regions, countries, stdout, panic, mapped>>

\* The history entry of a record handed to one of the two mapping closures.
Handed(side, b) ==
  [side |-> side, name |-> b.name, counts |-> b.counts, frags |-> b.frags,
   cells |-> b.cells]

\* What the collect of china_regions does with one item: take_while_ref puts
\* the iterator back when the record is named "China".
RegionsStep(b) ==
  CASE b.item = "Panic" ->
         /\ pc' = "panicked"
         /\ panic' = "failed to parse"
         /\ UNCHANGED <<it, china_regions, mapped>>
    [] b.item = "None" ->
         /\ pc' = "countries"
         /\ it' = b.rest
         /\ UNCHANGED <<china_regions, panic, mapped>>
    [] b.item = "Some" /\ b.name = China ->
         /\ pc' = "countries"
         /\ UNCHANGED <<it, china_regions, panic, mapped>>
    [] OTHER ->
         /\ china_regions' = Append(china_regions, RegionJson(b.name, b.counts))
         /\ mapped' = Append(mapped, Handed("region", b))
         /\ it' = b.rest
         /\ UNCHANGED <<pc, panic>>

\* One next() of the collect of china_regions (lines 124-137).
RegionsNext ==
  /\ pc = "regions"
  /\ RegionsStep(FilterNext(it))
  /\ UNCHANGED <<text, windowed, coalesced, countries, stdout>>

\* What the collect of countries does with one item.
CountriesStep(b) ==
  CASE b.item = "Panic" ->
         /\ pc' = "panicked"
         /\ panic' = "failed to parse"
         /\ UNCHANGED <<it, countries, mapped>>
    [] b.item = "None" ->
         /\ pc' = "print"
         /\ it' = b.rest
         /\ UNCHANGED <<countries, panic, mapped>>
    [] b.item = "Some" /\ b.name = China ->
         /\ countries' = Append(countries, ChinaJson(b.counts, china_regions))
         /\ mapped' = Append(mapped, Handed("country", b))
         /\ it' = b.rest
         /\ UNCHANGED <<pc, panic>>
    [] b.item = "Some" /\ CountryIndexPanics(b.counts) ->
         /\ pc' = "panicked"
         /\ panic' = "index out of bounds"
         /\ it' = b.rest
         /\ UNCHANGED <<countries, mapped>>
    [] OTHER ->
         /\ countries' = Append(countries, CountryJson(b.name, b.counts))
         /\ mapped' = Append(mapped, Handed("country", b))
         /\ it' = b.rest
         /\ UNCHANGED <<pc, panic>>

\* A faulty variant of CountriesNext: every country is printed as soon as it
\* is mapped.
CountriesNextStreaming ==
  /\ pc = "countries"
  /\ CountriesStep(FilterNext(it))
  /\ stdout' = IF countries' # countries THEN Append(stdout, countries') ELSE stdout
  /\ UNCHANGED <<text, windowed, coalesced, china_regions>>

\* One next() of the collect of countries (lines 138-179).
CountriesNext ==
  /\ pc = "countries"
  /\ CountriesStep(FilterNext(it))
  /\ UNCHANGED <<text, windowed, coalesced, china_regions, stdout>>

\* line 180
PrintCountries ==
  /\ pc = "print"
  /\ stdout' = Append(stdout, countries)
  /\ pc' = "done"
  /\ UNCHANGED <<text, windowed, coalesced, it, china_regions, countries, panic,
                 mapped>>

Next ==
  \/ SelectWindow
  \/ CoalesceLines
  \/ RegionsNext
  \/ CountriesNext
  \/ PrintCountries

Spec == Init /\ [][Next]_vars

(***************************************************************************)
(* Properties                                                              *)
(***************************************************************************)

Range(s) == {s[i] : i \in 1..Len(s)}

\* The first index of ls at or after h that holds x, 0 when there is none.
FirstIndexFrom(ls, x, h) ==
  IF \E i \in h..Len(ls) : ls[i] = x
  THEN CHOOSE i \in h..Len(ls) :
         ls[i] = x /\ \A j \in h..(i - 1) : ls[j] # x
  ELSE 0

\* The lines of ls from index h up to but excluding index e (to the end when
\* e = 0); nothing when h = 0.
LinesBetween(ls, h, e) ==
  IF h = 0 THEN <<>>
  ELSE IF e = 0 THEN SubSeq(ls, h, Len(ls))
  ELSE IF e <= h THEN <<>>
  ELSE SubSeq(ls, h, e - 1)

\* The records a batcher that goes on after a discarded row would emit, in
\* order, as far as the cells parse: the rows that pass the filter.
RECURSIVE ContinuingRecords(_)
ContinuingAfter(b) ==
  IF b.item = "Panic" THEN <<>>
  ELSE IF b.item = "Some" /\ KeepRecord(b.name, b.counts)
       THEN <<[name |-> b.name, counts |-> b.counts]>> \o ContinuingRecords(b.rest)
       ELSE ContinuingRecords(b.rest)

ContinuingRecords(ls) ==
  IF ls = <<>> THEN <<>> ELSE ContinuingAfter(Batching(ls))

\* The records the two closures were handed, in order.
HandedRecords ==
  [i \in 1..Len(mapped) |-> [name |-> mapped[i].name, counts |-> mapped[i].counts]]

\* The index in the history of the first record named "China" (one past the
\* end when there is none).
PartitionPoint ==
  IF \E i \in 1..Len(mapped) : mapped[i].name = China
  THEN CHOOSE i \in 1..Len(mapped) :
         mapped[i].name = China /\ \A j \in 1..(i - 1) : mapped[j].name # China
  ELSE Len(mapped) + 1

\* The history entries of one side, in order.
IsCountrySide(h) == h.side = "country"
CountrySide == SelectSeq(mapped, IsCountrySide)

\* The numbers written in a cell, left to right: the values of its maximal
\* runs of ASCII digits.
RECURSIVE NumbersIn(_, _, _)
NumbersIn(s, acc, inRun) ==
  IF s = <<>> THEN (IF inRun THEN <<acc>> ELSE <<>>)
  ELSE IF Head(s) \in AsciiDigits
       THEN NumbersIn(Tail(s), (IF inRun THEN acc * 10 ELSE 0) + DigitValue(Head(s)), TRUE)
       ELSE (IF inRun THEN <<acc>> ELSE <<>>) \o NumbersIn(Tail(s), 0, FALSE)

Numbers(cell) == NumbersIn(cell, 0, FALSE)

\* C1 (as stated): a discarded candidate row does not end the batching: when
\* the run completes, every row that passes the filter, also one that comes
\* after a discarded row, has been emitted as a Record to a mapping closure.
C1_RowsAfterNoiseEmitted ==
  pc = "done" => HandedRecords = ContinuingRecords(coalesced)

\* C2 (as stated): the records are partitioned at the first record named
\* "China": when the run completes, every record before it was mapped as a
\* region and never as a top-level entry, that record and every later one as a
\* top-level country, each exactly once and in order.
C2_PartitionAtFirstChina ==
  pc = "done" =>
    /\ \A i \in 1..Len(mapped) :
         mapped[i].side = IF i < PartitionPoint THEN "region" ELSE "country"
    /\ Len(china_regions) = PartitionPoint - 1
    /\ Len(stdout[1]) = Len(mapped) - (PartitionPoint - 1)

\* C3 (as stated, for the documents with a record named "China"): exactly
\* one top-level entry of the printed document has a regions list that is not
\* null, it is the entry named "China", and every other entry has null.
C3_ExactlyOneRegionsList ==
  (pc = "done" /\ \E i \in 1..Len(mapped) : mapped[i].name = China) =>
    /\ Cardinality({i \in 1..Len(stdout[1]) : stdout[1][i].regions # Null}) = 1
    /\ \A i \in 1..Len(stdout[1]) :
         stdout[1][i].regions # Null <=> stdout[1][i].name = Str(China)

\* C4 (as stated): without a line equal to the start sentinel the run fails:
\* it neither completes nor prints.
C4_NoStartSentinelFails ==
  StartSentinel \notin Range(NonBlankLines(text)) =>
    pc # "done" /\ stdout = <<>>

\* C5 (as stated): a run that maps as a region a record with a two-element
\* group among its first six fails: it does not complete.
C5_RegionPairGroupRejected ==
  pc = "done" =>
    \A i \in 1..Len(mapped) :
      mapped[i].side = "region" =>
        \A k \in 1..6 : Len(mapped[i].counts[k]) = 1

\* C6: nothing has been printed in a panicked run; a document is printed at
\* most once, and only when both collections are complete (the run is done
\* and the document is the collected countries).
C6_NoPartialOutput ==
  /\ pc = "panicked" => stdout = <<>>
  /\ Len(stdout) <= 1
  /\ stdout # <<>> => pc = "done" /\ stdout[1] = countries

\* C6 witness: the mapping of a country panics on a one-element group after a
\* region and a country have been collected.
C6_Witness ==
  /\ pc = "panicked"
  /\ panic = "index out of bounds"
  /\ china_regions # <<>>
  /\ countries # <<>>

\* C7: every record mapped as a country and not named "China" has, from
\* cell k written "N (M)", total = N and today = M: confirmed from cell 0,
\* exposure in China from cell 1, other from cell 2, in country from cell 3,
\* unknown from cell 4, deaths from cell 5; suspected and regions are null.
C7_PairLayout ==
  /\ Len(CountrySide) = Len(countries)
  /\ \A i \in 1..Len(countries) :
       CountrySide[i].name # China =>
         /\ countries[i].name = Str(CountrySide[i].name)
         /\ countries[i].total_confirmed_cases = Num(Numbers(CountrySide[i].cells[1])[1])
         /\ countries[i].today_confirmed_cases = Num(Numbers(CountrySide[i].cells[1])[2])
         /\ countries[i].total_likely_place_of_exposure_china = Num(Numbers(CountrySide[i].cells[2])[1])
         /\ countries[i].today_likely_place_of_exposure_china = Num(Numbers(CountrySide[i].cells[2])[2])
         /\ countries[i].total_likely_place_of_exposure_other = Num(Numbers(CountrySide[i].cells[3])[1])
         /\ countries[i].today_likely_place_of_exposure_other = Num(Numbers(CountrySide[i].cells[3])[2])
         /\ countries[i].total_likely_place_of_exposure_in_country = Num(Numbers(CountrySide[i].cells[4])[1])
         /\ countries[i].today_likely_place_of_exposure_in_country = Num(Numbers(CountrySide[i].cells[4])[2])
         /\ countries[i].total_likely_place_of_exposure_unknown = Num(Numbers(CountrySide[i].cells[5])[1])
         /\ countries[i].today_likely_place_of_exposure_unknown = Num(Numbers(CountrySide[i].cells[5])[2])
         /\ countries[i].total_deaths = Num(Numbers(CountrySide[i].cells[6])[1])
         /\ countries[i].today_deaths = Num(Numbers(CountrySide[i].cells[6])[2])
         /\ countries[i].today_suspected_cases = Null
         /\ countries[i].regions = Null

\* C7 witness: a printed document whose first entry is China and whose second
\* comes from a row with the cells "11 (2)" and the wrapped "3 ( 4 )".
C7_Witness ==
  /\ pc = "done"
  /\ Len(stdout[1]) >= 2
  /\ stdout[1][1].name = Str(China)
  /\ stdout[1][2].name # Str(China)
  /\ CountrySide[2].cells[1] = <<"1", "1", " ", "(", "2", ")">>
  /\ stdout[1][2].total_confirmed_cases = Num(11)
  /\ stdout[1][2].today_confirmed_cases = Num(2)
  /\ stdout[1][2].total_likely_place_of_exposure_china = Num(3)
  /\ stdout[1][2].today_likely_place_of_exposure_china = Num(4)

\* The merge condition as the claim words it.
ClaimedMerge(prev, cur) ==
  /\ cur # <<>> /\ cur[1] = "("
  /\ CasesRe(prev)
  /\ "(" \notin Range(prev)

\* out is ins with some adjacent pairs joined by a space, and nothing joined
\* twice.
RECURSIVE JoinsPairsOf(_, _)
JoinsPairsOf(out, ins) ==
  IF out = <<>> THEN ins = <<>>
  ELSE \/ /\ ins # <<>> /\ Head(out) = Head(ins)
          /\ JoinsPairsOf(Tail(out), Tail(ins))
       \/ /\ Len(ins) >= 2 /\ Head(out) = ins[1] \o <<" ">> \o ins[2]
          /\ JoinsPairsOf(Tail(out), Tail(Tail(ins)))

\* C8: coalescing the coalesced lines again changes nothing; no adjacent
\* pair of them satisfies the merge condition; and a line made by a merge
\* was not merged again (each is a windowed line or two adjacent ones joined).
C8_CoalesceIdempotent ==
  pc \notin {"window", "coalesce"} =>
    /\ Coalesce(coalesced) = coalesced
    /\ \A i \in 1..(Len(coalesced) - 1) :
         ~ClaimedMerge(coalesced[i], coalesced[i + 1])
    /\ JoinsPairsOf(coalesced, windowed)

\* C8 witness: a line made by a merge is followed by a line that starts
\* with "(".
C8_Witness ==
  /\ pc \notin {"window", "coalesce"}
  /\ \E i \in 1..(Len(coalesced) - 1) :
       /\ coalesced[i] \notin Range(windowed)
       /\ coalesced[i + 1][1] = "("

\* The fragments joined by single spaces, built from the right.
RECURSIVE SpaceJoined(_)
SpaceJoined(frags) ==
  IF Len(frags) <= 1 THEN (IF frags = <<>> THEN <<>> ELSE frags[1])
  ELSE SpaceJoined(SubSeq(frags, 1, Len(frags) - 1)) \o <<" ">> \o Last(frags)

\* C9: the name of every mapped record is the cleanup of the last surviving
\* fragment alone when a surviving fragment equals the header label, and of
\* all surviving fragments joined by single spaces otherwise; after the
\* fragments "Country/Territory/Area", "China" the name is "China".
C9_HeaderLabelRule ==
  \A i \in 1..Len(mapped) :
    /\ mapped[i].name =
         CleanName(IF HeaderLabel \in Range(mapped[i].frags)
                   THEN mapped[i].frags[Len(mapped[i].frags)]
                   ELSE SpaceJoined(mapped[i].frags))
    /\ mapped[i].frags = <<HeaderLabel, China>> => mapped[i].name = China

\* C9 witness: a record under the header label and a record of two joined
\* fragments have both been mapped.
C9_Witness ==
  /\ \E i \in 1..Len(mapped) :
       mapped[i].frags = <<HeaderLabel, China>> /\ mapped[i].name = China
  /\ \E j \in 1..Len(mapped) :
       Len(mapped[j].frags) = 2 /\ HeaderLabel \notin Range(mapped[j].frags)

\* C10 (as stated): the window is the lines from the first start sentinel up
\* to but excluding the first end sentinel of the whole sequence.
C10_WindowToFirstEndOfAll ==
  pc # "window" =>
    windowed =
      LinesBetween(NonBlankLines(text),
                   FirstIndexFrom(NonBlankLines(text), StartSentinel, 1),
                   FirstIndexFrom(NonBlankLines(text), EndSentinel, 1))

\* C10 (amended): the window is the lines from the first start sentinel up to
\* but excluding the first end sentinel at or after it; an end sentinel
\* before the first start sentinel is dropped with the lines before it.
C10_WindowToFirstEndAfterStart ==
  pc # "window" =>
    windowed =
      IF StartSentinel \notin Range(NonBlankLines(text)) THEN <<>>
      ELSE LinesBetween(
             NonBlankLines(text),
             FirstIndexFrom(NonBlankLines(text), StartSentinel, 1),
             FirstIndexFrom(NonBlankLines(text), EndSentinel,
                            FirstIndexFrom(NonBlankLines(text), StartSentinel, 1)))

\* C10 witness: an end sentinel before the first start sentinel and another
\* after it, with a line kept in between.
C10_Witness ==
  /\ pc # "window"
  /\ Len(windowed) >= 2
  /\ FirstIndexFrom(NonBlankLines(text), EndSentinel, 1) >= 1
  /\ FirstIndexFrom(NonBlankLines(text), EndSentinel, 1)
       < FirstIndexFrom(NonBlankLines(text), StartSentinel, 1)
  /\ FirstIndexFrom(NonBlankLines(text), EndSentinel,
                    FirstIndexFrom(NonBlankLines(text), StartSentinel, 1)) > 0

====
